---- MODULE Spec2Model ----
(***************************************************************************)
(* Model of pyseg's Star class (src/sub/star.py): a column-oriented table  *)
(* mirroring a RELION STAR file, with its column registry (RelionCols),    *)
(* its structural operations, its text codec and its bulk algorithms.      *)
(*                                                                         *)
(* Python values are tagged records [k, s, n, x]:                          *)
(*   k = "str"   : s is the text, a sequence of one-character strings      *)
(*   k = "int"   : n is the integer                                        *)
(*   k = "float" : n is the value in tenths; x = 1 says the float carries  *)
(*                 digits below the 12 significant digits str() prints     *)
(* A file's text is a sequence of items: one-character strings, and the    *)
(* words "data_", "loop_" and the column names kept as single items.       *)
(*                                                                         *)
(* A loop of the code is a RECURSIVE operator or a function over the       *)
(* positions it visits.  Where one step's result feeds the next, the next  *)
(* binds it through a singleton set (x \in {e}): e is then evaluated once. *)
(***************************************************************************)
EXTENDS Integers, Sequences, FiniteSets, TLC

VARIABLES star, other, file, out, loads, last

vars == <<star, other, file, out, loads, last>>

\* ------------------------------------------------------------------ bounds

\* largest number of rows a table of the structural model grows to
MaxRows == 2

\* largest number of load calls made on one object that holds a table
MaxLoads == 2

\* largest number of rows (particles) of a table that particle_group is
\* called on
MaxParts == 4

\* ------------------------------------------------------------- Python values

IntV(n) == [k |-> "int", s |-> <<>>, n |-> n, x |-> 0]

FloatV(n, x) == [k |-> "float", s |-> <<>>, n |-> n, x |-> x]

StrV(s) == [k |-> "str", s |-> s, n |-> 0, x |-> 0]

\* the outcome of a cast that raises ValueError
CastErr == [k |-> "err", s |-> <<>>, n |-> 0, x |-> 0]

Digits == <<"0", "1", "2", "3", "4", "5", "6", "7", "8", "9">>

IsDigit(c) == \E i \in 1..10 : Digits[i] = c

DigitVal(c) == (CHOOSE i \in 1..10 : Digits[i] = c) - 1

IsSpace(c) == c \in {" ", "\t", "\n"}

RECURSIVE NatToStr(_)
NatToStr(n) == IF n < 10 THEN <<Digits[n + 1]>>
               ELSE NatToStr(n \div 10) \o <<Digits[(n % 10) + 1]>>

\* str(int)
IntToStr(n) == IF n < 0 THEN <<"-">> \o NatToStr(0 - n) ELSE NatToStr(n)

\* str(float) of Python 2: '%.12g', with ".0" added to an integral value; the
\* digits below the 12th significant one (x) are not printed
FloatToStr(n) ==
    LET a == IF n < 0 THEN 0 - n ELSE n
    IN  (IF n < 0 THEN <<"-">> ELSE <<>>) \o NatToStr(a \div 10) \o <<".">>
            \o <<Digits[(a % 10) + 1]>>

RECURSIVE AllDigits(_)
AllDigits(s) == IF s = <<>> THEN TRUE ELSE IsDigit(Head(s)) /\ AllDigits(Tail(s))

RECURSIVE DigitsVal(_, _)
DigitsVal(s, acc) == IF s = <<>> THEN acc
                     ELSE DigitsVal(Tail(s), acc * 10 + DigitVal(Head(s)))

RECURSIVE LStrip(_)
LStrip(s) == IF s /= <<>> /\ IsSpace(Head(s)) THEN LStrip(Tail(s)) ELSE s

RECURSIVE RStrip(_)
RStrip(s) == IF s /= <<>> /\ IsSpace(s[Len(s)]) THEN RStrip(SubSeq(s, 1, Len(s) - 1))
             ELSE s

Strip(s) == RStrip(LStrip(s))

\* position of the first occurrence of c in s, 0 when absent
IndexOf(s, c) == IF \E i \in 1..Len(s) : s[i] = c
                 THEN CHOOSE i \in 1..Len(s) : s[i] = c /\ \A j \in 1..(i - 1) : s[j] /= c
                 ELSE 0

\* int(<str>): surrounding white space, an optional sign, decimal digits
ParseInt(s0) ==
    LET s   == Strip(s0)
        neg == s /= <<>> /\ Head(s) = "-"
        d   == IF s /= <<>> /\ Head(s) \in {"-", "+"} THEN Tail(s) ELSE s
    IN  IF d = <<>> \/ ~AllDigits(d) THEN CastErr
        ELSE IntV(IF neg THEN 0 - DigitsVal(d, 0) ELSE DigitsVal(d, 0))

RECURSIVE Pow10(_)
Pow10(e) == IF e = 0 THEN 1 ELSE 10 * Pow10(e - 1)

\* float(<str>): surrounding white space, an optional sign, digits with an
\* optional fraction, an optional exponent e<digits>.  Values are kept in
\* tenths: the inputs of the model carry at most one fractional digit.
ParseFloat(s0) ==
    LET s    == Strip(s0)
        neg  == s /= <<>> /\ Head(s) = "-"
        u    == IF s /= <<>> /\ Head(s) \in {"-", "+"} THEN Tail(s) ELSE s
        ePos == IndexOf(u, "e")
        mant == IF ePos = 0 THEN u ELSE SubSeq(u, 1, ePos - 1)
        expo == IF ePos = 0 THEN <<"0">> ELSE SubSeq(u, ePos + 1, Len(u))
        dPos == IndexOf(mant, ".")
        ip   == IF dPos = 0 THEN mant ELSE SubSeq(mant, 1, dPos - 1)
        fp   == IF dPos = 0 THEN <<>> ELSE SubSeq(mant, dPos + 1, Len(mant))
        ok   == /\ AllDigits(ip) /\ AllDigits(fp) /\ Len(ip) + Len(fp) > 0
                /\ expo /= <<>> /\ AllDigits(expo)
        t    == (DigitsVal(ip, 0) * 10 + (IF fp = <<>> THEN 0 ELSE DigitVal(Head(fp))))
                    * Pow10(DigitsVal(expo, 0))
    IN  IF ~ok THEN CastErr ELSE FloatV(IF neg THEN 0 - t ELSE t, 0)

\* int(<float>): truncation towards zero
Trunc(n) == IF n < 0 THEN 0 - ((0 - n) \div 10) ELSE n \div 10

\* str(v)
ToStr(v) == CASE v.k = "str" -> v.s
              [] v.k = "int" -> IntToStr(v.n)
              [] OTHER -> FloatToStr(v.n)

\* dtype(v) for dtype in str, int, float; CastErr when Python raises ValueError
Cast(dtype, v) ==
    CASE dtype = "str" -> StrV(ToStr(v))
      [] dtype = "int" -> (CASE v.k = "int" -> v
                             [] v.k = "float" -> IntV(Trunc(v.n))
                             [] OTHER -> ParseInt(v.s))
      [] OTHER -> (CASE v.k = "int" -> FloatV(v.n * 10, 0)
                     [] v.k = "float" -> v
                     [] OTHER -> ParseFloat(v.s))

\* ---------------------------------------------------------------- RelionCols

RelionCols_cols ==
    << "_rlnMicrographName", "_rlnCoordinateX", "_rlnCoordinateY", "_rlnCoordinateZ",
       "_rlnImageName", "_rlnCtfImage", "_rlnGroupNumber", "_rlnAngleRotPrior",
       "_rlnAngleTiltPrior", "_rlnAnglePsiPrior", "_rlnAngleRot", "_rlnAngleTilt",
       "_rlnAnglePsi", "_rlnOriginX", "_rlnOriginY", "_rlnClassNumber",
       "_rlnNormCorrection", "_rlnOriginZ", "_rlnLogLikeliContribution",
       "_rlnMaxValueProbDistribution", "_rlnNrOfSignificantSamples", "_rlnRandomSubset",
       "_psGhMCFPickle", "_psSegImage", "_psSegLabel", "_psSegScale", "_psSegRot",
       "_psSegTilt", "_psSegPsi", "_psSegOffX", "_psSegOffY", "_psSegOffZ",
       "_psAPClass", "_psAPCenter" >>

RelionCols_dtypes ==
    << "str", "float", "float", "float", "str", "str", "int", "float", "float", "float",
       "float", "float", "float", "float", "float", "int", "float", "float", "float",
       "float", "int", "int", "str", "str", "int", "float", "float", "float", "float",
       "float", "float", "float", "int", "int" >>

is_valid(key) == \E i \in 1..Len(RelionCols_cols) : RelionCols_cols[i] = key

\* the registered type, "None" for a name that is not registered
get_dtype(key) == IF is_valid(key) THEN RelionCols_dtypes[IndexOf(RelionCols_cols, key)]
                  ELSE "None"

\* ---------------------------------------------------------------------- Star

\* Star.__init__
EmptyStar ==
    [ header |-> << <<"\n">>, <<"data_", "\n">>, <<"\n">>, <<"loop_", "\n">> >>,
      data   |-> [key \in {} |-> <<>>],
      dtypes |-> <<>>,
      rows   |-> 0,
      cols   |-> <<>>,
      fname  |-> "None" ]

get_ncols(st) == Len(st.cols)

get_nrows(st) == st.rows

is_column(st, key) == \E i \in 1..Len(st.cols) : st.cols[i] = key

get_column_type(st, key) == IF is_column(st, key) THEN st.dtypes[IndexOf(st.cols, key)]
                            ELSE "None"

\* result of a call: the object after it, the exception raised ("None" when the
\* call returns) and the value returned
Res(st, exc) == [st |-> st, exc |-> exc]

SetKey(d, key, v) == [kk \in (DOMAIN d) \cup {key} |-> IF kk = key THEN v ELSE d[kk]]

DelKey(d, key) == [kk \in (DOMAIN d) \ {key} |-> d[kk]]

RemoveAt(s, i) == SubSeq(s, 1, i - 1) \o SubSeq(s, i + 1, Len(s))


\* a call argument that may be a scalar or a sequence: hasattr(val, '__len__')
\* holds for a list and for a str, whose elements are its characters
Scalar(v) == [isSeq |-> FALSE, v |-> v, items |-> <<>>]

ListArg(l) == [isSeq |-> TRUE, v |-> IntV(0), items |-> l]

StrArg(s) == [isSeq |-> TRUE, v |-> StrV(s), items |-> [i \in 1..Len(s) |-> StrV(<<s[i]>>)]]

\* "Add or overwrite the column" of add_column
PutColumn(st, key, dtype, row) ==
    IF is_column(st, key)
    THEN [st EXCEPT !.data = SetKey(st.data, key, row),
                    !.dtypes = [i \in 1..Len(st.dtypes) |->
                                   IF i = IndexOf(st.cols, key) THEN dtype ELSE st.dtypes[i]]]
    ELSE [st EXCEPT !.data = SetKey(st.data, key, row),
                    !.cols = Append(st.cols, key),
                    !.dtypes = Append(st.dtypes, dtype)]

\* Star.add_column(key, val, no_parse)
add_column(st, key, val, no_parse) ==
    IF no_parse \/ is_valid(key)
    THEN LET dtype == IF get_dtype(key) = "None" THEN "float" ELSE get_dtype(key)
         IN  IF val.isSeq
             THEN IF Len(val.items) /= st.rows THEN Res(st, "PySegInputError")
                  ELSE LET row == [i \in 1..Len(val.items) |-> Cast(dtype, val.items[i])]
                       IN  IF \E i \in 1..Len(row) : row[i] = CastErr
                           THEN Res(st, "ValueError")
                           ELSE Res(PutColumn(st, key, dtype, row), "None")
             ELSE LET row == [i \in 1..st.rows |-> Cast(dtype, val.v)]
                  IN  Res(PutColumn(st, key, dtype, row), "None")
    ELSE Res(st, "PySegInputError")

\* the loop of add_row over the (key, value) pairs kw[i..], in the iteration
\* order of the kwargs dict: each value is appended to its column as soon as
\* its pair is reached
RECURSIVE add_row_loop(_, _, _)
add_row_loop(st, kw, i) ==
    IF i > Len(kw) THEN Res([st EXCEPT !.rows = st.rows + 1], "None")
    ELSE LET key == kw[i][1]
             c   == Cast(get_column_type(st, key), kw[i][2])
         IN  IF ~is_column(st, key) THEN Res(st, "PySegInputError")
             ELSE IF c = CastErr THEN Res(st, "ValueError")
             ELSE CHOOSE r \in {add_row_loop(st2, kw, i + 1) :
                                   st2 \in {[st EXCEPT !.data =
                                               SetKey(st.data, key, Append(st.data[key], c))]}} :
                        TRUE

\* add_row without the test on the number of keys
add_row_uncounted(st, kw) == add_row_loop(st, kw, 1)

\* Star.add_row(**kwargs); kw lists the pairs of kwargs in dict iteration order
add_row(st, kw) ==
    IF Len(kw) /= get_ncols(st) THEN Res(st, "PySegInputError")
    ELSE add_row_loop(st, kw, 1)

\* Star.del_column(key)
del_column(st, key) ==
    IF is_column(st, key)
    THEN Res([st EXCEPT !.cols = RemoveAt(st.cols, IndexOf(st.cols, key)),
                        !.dtypes = RemoveAt(st.dtypes, IndexOf(st.cols, key)),
                        !.data = DelKey(st.data, key)], "None")
    ELSE Res(st, "None")

\* ids_lut of del_rows, on 0-based positions: a numpy index idx marks position
\* idx, a negative one position idx + n, and an IndexError is passed over
ids_lut(ids, n) ==
    {i \in 0..(n - 1) : \E j \in 1..Len(ids) : ids[j] = i \/ ids[j] + n = i}

\* the entries of column s at the positions 0..n-1 that are not in lut
RECURSIVE KeptEntries(_, _, _, _)
KeptEntries(s, lut, i, n) ==
    IF i >= n THEN <<>>
    ELSE (IF i \in lut THEN <<>> ELSE <<s[i + 1]>>) \o KeptEntries(s, lut, i + 1, n)

\* Star.del_rows(ids); has_len is hasattr(ids, '__len__').  When a kept row
\* lies past the end of a column the copy of that row raises IndexError; first
\* holds the columns the data dict yields before that column, which have
\* received the row's entry by then
del_rows(st, ids, has_len, first) ==
    IF ~has_len THEN Res(st, "PySegInputError")
    ELSE IF Len(ids) = 0 THEN Res(st, "None")
    ELSE LET lut  == ids_lut(ids, st.rows)
             kept == (0..(st.rows - 1)) \ lut
             \* hold_data[key][i] of a kept row i past the end of a column
             short == \E key \in DOMAIN st.data : \E i \in kept : i >= Len(st.data[key])
             stop == IF short
                     THEN CHOOSE i \in kept :
                            /\ \E key \in DOMAIN st.data : i >= Len(st.data[key])
                            /\ \A j \in kept : j < i =>
                                 \A key \in DOMAIN st.data : j < Len(st.data[key])
                     ELSE st.rows
         IN  Res([st EXCEPT
                    !.data = [key \in DOMAIN st.data |->
                                 KeptEntries(st.data[key], lut, 0, stop)
                                    \o (IF short /\ key \in first /\ stop < Len(st.data[key])
                                        THEN <<st.data[key][stop + 1]>> ELSE <<>>)],
                    !.rows = Cardinality({i \in kept : i < stop})],
                 IF short THEN "IndexError" ELSE "None")


\* ---------------------------------------------------------------- text codec

\* result of to_string: the text, or the exception its cell reads raise
TextRes(text, exc) == [text |-> text, exc |-> exc]

RECURSIVE Flatten(_)
Flatten(ls) == IF ls = <<>> THEN <<>> ELSE Head(ls) \o Flatten(Tail(ls))

\* a row line whose cells are written one after the other with no tab
RowLine_joined(st, i) ==
    Flatten([c \in 1..Len(st.cols) |-> ToStr(st.data[st.cols[c]][i + 1])]) \o <<"\n">>

\* one line of to_string's rows loop: str() of the cells of 0-based row i in
\* column order, tab separated, newline ended
RowLine(st, i) ==
    Flatten([c \in 1..Len(st.cols) |->
                ToStr(st.data[st.cols[c]][i + 1])
                    \o (IF c < Len(st.cols) THEN <<"\t">> ELSE <<"\n">>)])

\* Star.to_string()
to_string(st) ==
    LET head == Flatten(st.header)
        decl == Flatten([c \in 1..Len(st.cols) |->
                            <<st.cols[c], " ", "#">> \o IntToStr(c) \o <<"\n">>])
        \* self.__data[key][i] past the end of a column's list
        short == /\ get_ncols(st) > 0
                 /\ \E c \in 1..Len(st.cols) : Len(st.data[st.cols[c]]) < get_nrows(st)
    IN  IF short THEN TextRes(<<>>, "IndexError")
        ELSE TextRes(head \o decl
                        \o (IF get_ncols(st) > 0
                            THEN Flatten([i \in 1..get_nrows(st) |-> RowLine(st, i - 1)])
                            ELSE <<>>)
                        \o <<"\n">>, "None")

\* the k-th smallest element of a set of integers
Kth(S, k) == CHOOSE e \in S : Cardinality({x \in S : x < e}) = k - 1

\* file.readlines(): the text cut after each newline
ReadLines(text) ==
    LET ends == {i \in 1..Len(text) : text[i] = "\n" \/ i = Len(text)}
    IN  [k \in 1..Cardinality(ends) |->
            SubSeq(text, IF k = 1 THEN 1 ELSE Kth(ends, k - 1) + 1, Kth(ends, k))]

\* str.split(): the maximal runs of items that are not white space
Split(line) ==
    LET starts == {i \in 1..Len(line) :
                      ~IsSpace(line[i]) /\ (i = 1 \/ IsSpace(line[i - 1]))}
        stops  == {i \in 1..Len(line) :
                      ~IsSpace(line[i]) /\ (i = Len(line) \/ IsSpace(line[i + 1]))}
    IN  [k \in 1..Cardinality(starts) |-> SubSeq(line, Kth(starts, k), Kth(stops, k))]

\* the column names the model writes into a text as one item each
NameItems == {RelionCols_cols[i] : i \in 1..Len(RelionCols_cols)} \cup {"_psUser"}

\* lines[lidx][0] == '_'
StartsWithUnderscore(line) == line[1] = "_" \/ line[1] \in NameItems

\* the name a header token spells: a column name item, else a text that is no
\* registered name
TokenKey(tok) == IF Len(tok) = 1 THEN tok[1] ELSE "?"

\* "Parse Header 1": the index of the first line from i on that starts with '_'
RECURSIVE header_1_end(_, _)
header_1_end(lines, i) ==
    IF i <= Len(lines) /\ ~StartsWithUnderscore(lines[i]) THEN header_1_end(lines, i + 1)
    ELSE i

\* "Parse Header 2": one column per line that starts with '_'; returns the
\* object, the exception and the index of the first line after the header
RECURSIVE load_cols(_, _, _)
load_cols(st, lines, i) ==
    IF i <= Len(lines) /\ StartsWithUnderscore(lines[i])
    THEN LET col == TokenKey(Split(lines[i])[1])
         IN  IF is_valid(col) /\ ~is_column(st, col)
             THEN CHOOSE r \in {load_cols(st2, lines, i + 1) :
                                   st2 \in {[st EXCEPT !.data = SetKey(st.data, col, <<>>),
                                                        !.dtypes = Append(st.dtypes, get_dtype(col)),
                                                        !.cols = Append(st.cols, col)]}} : TRUE
             ELSE [st |-> st, exc |-> "PySegInputError", i |-> i]
    ELSE [st |-> st, exc |-> "None", i |-> i]

\* the cast of one token d of a data row: dtype(d), and for an int column on
\* ValueError int(float(d))
load_cast(dtype, d) ==
    LET c == Cast(dtype, StrV(d))
    IN  IF c /= CastErr THEN c
        ELSE IF dtype = "int"
             THEN (IF ParseFloat(d) = CastErr THEN CastErr
                   ELSE IntV(Trunc(ParseFloat(d).n)))
             ELSE CastErr

\* the loop over zip(datas, self.__dtypes, self.__cols) from position p on
RECURSIVE load_row(_, _, _)
load_row(st, datas, p) ==
    IF p > Len(datas) \/ p > Len(st.dtypes) \/ p > Len(st.cols)
    THEN Res([st EXCEPT !.rows = st.rows + 1], "None")
    ELSE LET c == load_cast(st.dtypes[p], datas[p])
         IN  IF c = CastErr THEN Res(st, "ValueError")
             ELSE CHOOSE r \in {load_row(st2, datas, p + 1) :
                        st2 \in {[st EXCEPT !.data =
                                    SetKey(st.data, st.cols[p],
                                           Append(st.data[st.cols[p]], c))]}} : TRUE

\* "Parse data rows": stops at the first line whose token count is not the
\* column count
RECURSIVE load_rows(_, _, _)
load_rows(st, lines, i) ==
    IF i > Len(lines) \/ get_ncols(st) /= Len(Split(lines[i])) THEN Res(st, "None")
    ELSE CHOOSE q \in {IF r.exc /= "None" THEN r ELSE load_rows(r.st, lines, i + 1) :
                          r \in {load_row(st, Split(lines[i]), 1)}} : TRUE

\* load once the file is read: header_1 and cols are rebuilt; data, dtypes and
\* rows are continued from what the object holds
load_lines(st, lines, fname) ==
    CHOOSE q \in
        {IF hc.exc /= "None" THEN Res(hc.st, hc.exc)
         ELSE CHOOSE q2 \in {IF r.exc /= "None" THEN r
                             ELSE Res([r.st EXCEPT !.fname = fname], "None") :
                                r \in {load_rows(hc.st, lines, hc.i)}} : TRUE :
            hc \in {load_cols([st EXCEPT !.header = SubSeq(lines, 1, header_1_end(lines, 1) - 1),
                                         !.cols = <<>>],
                              lines, header_1_end(lines, 1))}} : TRUE

\* Star.load(fname), text being the content of the file
load(st, text, fname) ==
    CHOOSE q \in {load_lines(st, lines, fname) : lines \in {ReadLines(text)}} : TRUE

\* ------------------------------------------------ structural specification

\* what the model remembers of the last call: the method, the exception it
\* raised ("None" when it returned), the object before the call and, for
\* add_row, the set of keys passed
Call(op, exc, pre, keys) == [op |-> op, exc |-> exc, pre |-> pre, keys |-> keys]

NoCall == Call("none", "None", EmptyStar, {})

\* column names passed to add_column and del_column: a registered text column
\* and an unregistered name
ColKeys == {"_rlnImageName", "_psUser"}

\* keys passed to add_row: the same, and a name that is never a column
RowKeys == ColKeys \cup {"_rlnCoordinateX"}

\* values passed for a cell
RowVals == {IntV(2), StrV(<<"a">>)}

\* the kwargs of add_row: pairs with distinct keys, in dict iteration order
KwArgs ==
    {kw \in UNION {[1..n -> RowKeys \X RowVals] : n \in 0..Cardinality(RowKeys)} :
        \A i, j \in 1..Len(kw) : i /= j => kw[i][1] /= kw[j][1]}

KwKeys(kw) == {kw[i][1] : i \in 1..Len(kw)}

\* val of add_column: the default -1, a str, a list with a text, lists of
\* each length
ColArgs ==
    {Scalar(IntV(0 - 1)), StrArg(<<"a">>), ListArg(<<StrV(<<"a">>)>>)}
        \cup {ListArg([i \in 1..n |-> IntV(2)]) : n \in 0..MaxRows}

\* ids of del_rows
RowIds == {<<>>, <<0>>, <<1>>, <<0 - 1>>, <<1, 0>>, <<5>>}

ColSet(st) == {st.cols[i] : i \in 1..Len(st.cols)}

Init ==
    /\ star = EmptyStar
    /\ other = EmptyStar
    /\ file = <<>>
    /\ out = <<>>
    /\ loads = 0
    /\ last = NoCall

AddColumn ==
    \E key \in ColKeys, val \in ColArgs, no_parse \in BOOLEAN :
        \E r \in {add_column(star, key, val, no_parse)} :
            /\ star' = r.st
            /\ last' = Call("add_column", r.exc, star, {key})
            /\ UNCHANGED <<other, file, out, loads>>

AddRow ==
    /\ star.rows < MaxRows
    /\ \A key \in DOMAIN star.data : Len(star.data[key]) < MaxRows
    /\ \E kw \in KwArgs :
        \E r \in {add_row(star, kw)} :
            /\ star' = r.st
            /\ last' = Call("add_row", r.exc, star, KwKeys(kw))
            /\ UNCHANGED <<other, file, out, loads>>

DelColumn ==
    \E key \in ColKeys :
        \E r \in {del_column(star, key)} :
            /\ star' = r.st
            /\ last' = Call("del_column", r.exc, star, {key})
            /\ UNCHANGED <<other, file, out, loads>>

DelRows ==
    \E ids \in RowIds, has_len \in BOOLEAN, first \in SUBSET ColKeys :
        \E r \in {del_rows(star, ids, has_len, first)} :
            /\ star' = r.st
            /\ last' = Call("del_rows", r.exc, star, {})
            /\ UNCHANGED <<other, file, out, loads>>

Next == AddColumn \/ AddRow \/ DelColumn \/ DelRows

Spec == Init /\ [][Next]_vars

\* ----------------------------------------------------- codec specification

\* Star.store(fname) with sv = None: a positive del_ang component reads the
\* rows loop's variable i, which is unbound when that loop has not run; else
\* the file receives to_string()
store(st, del_ang) ==
    IF \E a \in 1..3 : del_ang[a] > 0 THEN TextRes(<<>>, "UnboundLocalError")
    ELSE to_string(st)

\* the column lists of the tables the codec is exercised on
CodecCols ==
    { <<>>, <<"_rlnImageName">>, <<"_rlnCoordinateX">>, <<"_rlnGroupNumber">>,
      <<"_psUser">>, <<"_rlnImageName", "_rlnCoordinateX">>,
      <<"_rlnCoordinateX", "_rlnImageName">>, <<"_rlnImageName", "_psUser">> }

\* cell values passed to add_row for a text column: plain, empty, with white
\* space, starting with '_'
TextVals == {StrV(<<"a">>), StrV(<<>>), StrV(<<"a", " ", "b">>), StrV(<<"_", "a">>)}

\* for a real column: 1.5, and a float with more digits than str() prints
RealVals == {FloatV(15, 0), FloatV(20, 1)}

IntVals == {IntV(2), IntV(0 - 7)}

CellVals(key) == CASE get_dtype(key) = "str" -> TextVals
                   [] get_dtype(key) = "int" -> IntVals
                   [] OTHER -> RealVals

\* the rows that can be passed for the columns cs
RowsFor(cs) ==
    {r \in [1..Len(cs) -> TextVals \cup RealVals \cup IntVals] :
        \A c \in 1..Len(cs) : r[c] \in CellVals(cs[c])}

RECURSIVE AddColumns(_, _, _)
AddColumns(st, cs, c) ==
    IF c > Len(cs) THEN st
    ELSE CHOOSE r \in {AddColumns(st2, cs, c + 1) :
                          st2 \in {add_column(st, cs[c], Scalar(IntV(0 - 1)), TRUE).st}} : TRUE

RECURSIVE AddRows(_, _, _)
AddRows(st, rs, i) ==
    IF i > Len(rs) THEN st
    ELSE CHOOSE r \in {AddRows(st2, rs, i + 1) :
              st2 \in {add_row(st, [c \in 1..Len(st.cols) |-> <<st.cols[c], rs[i][c]>>]).st}} :
            TRUE

\* the table that add_column for each name of cs and add_row for each row of
\* rs build from an empty Star
Build(cs, rs) == AddRows(AddColumns(EmptyStar, cs, 1), rs, 1)

InitCodec ==
    /\ \E cs \in CodecCols : \E n \in 0..MaxRows : \E rs \in [1..n -> RowsFor(cs)] :
            star = Build(cs, rs)
    /\ other = EmptyStar
    /\ file = <<>>
    /\ out = <<>>
    /\ loads = 0
    /\ last = NoCall

\* store(fname) with the default arguments; out keeps the table written.  The
\* file is opened for writing before to_string() runs, so a call that raises
\* leaves it empty
Store ==
    \E r \in {store(star, <<0, 0, 0>>)} :
        /\ file' = (IF r.exc = "None" THEN r.text ELSE <<>>)
        /\ out' = <<star>>
        /\ last' = Call("store", r.exc, star, {})
        /\ UNCHANGED <<star, other, loads>>

\* Star().load(fname), for a file that holds text: the stored file read into
\* a fresh object
LoadFresh ==
    /\ file /= <<>>
    /\ \E r \in {load(EmptyStar, file, "f")} :
           /\ other' = r.st
           /\ last' = Call("load_fresh", r.exc, star, {})
           /\ UNCHANGED <<star, file, out, loads>>

\* star.load(fname): the stored file read into the object that holds a table
Load ==
    /\ file /= <<>>
    /\ loads < MaxLoads
    /\ \E r \in {load(star, file, "f")} :
           /\ star' = r.st
           /\ loads' = loads + 1
           /\ last' = Call("load", r.exc, star, {})
           /\ UNCHANGED <<other, file, out>>

NextCodec == Store \/ LoadFresh \/ Load

SpecCodec == InitCodec /\ [][NextCodec]_vars

\* ------------------------------------------------------------ particle_group

\* the position a Python or numpy index idx reads in a sequence of length n
\* (1-based), 0 when it raises IndexError
PyIdx(n, idx) == IF 0 <= idx /\ idx < n THEN idx + 1
                 ELSE IF 0 - n <= idx /\ idx < 0 THEN n + idx + 1
                 ELSE 0

\* np.argsort(nparts)[k - 1]: the position of the k-th smallest count, equal
\* counts in their order of discovery
ArgSort(nparts, k) ==
    CHOOSE i \in 1..Len(nparts) :
        Cardinality({j \in 1..Len(nparts) :
                        nparts[j] < nparts[i] \/ (nparts[j] = nparts[i] /\ j < i)}) = k - 1

SeqMax(s) == CHOOSE m \in {s[i] : i \in 1..Len(s)} : \A i \in 1..Len(s) : s[i] <= m

\* nparts_gp[min_ids[0]] > min_gp; Python 2 orders every int above None
ExceedsMin(count, min_gp) == min_gp.none \/ count > min_gp.n

\* "Loop until the gathering is finished": curr_gp, nparts_gp and lut_gp after
\* the loop, the exception it raised and the number of merges made
RECURSIVE gather_loop(_, _, _, _, _)
gather_loop(curr_gp, nparts_gp, lut_gp, min_gp, merges) ==
    IF Cardinality({curr_gp[i] : i \in 1..Len(curr_gp)}) <= 1
    THEN [curr |-> curr_gp, nparts |-> nparts_gp, lut |-> lut_gp, exc |-> "None",
          merges |-> merges]
    ELSE LET m0  == ArgSort(nparts_gp, 1)
             m1  == ArgSort(nparts_gp, 2)
             lut == [i \in 1..Len(lut_gp) |->
                        IF lut_gp[i] = curr_gp[m0] THEN curr_gp[m1] ELSE lut_gp[i]]
             at  == PyIdx(Len(lut_gp), curr_gp[m0])
         IN  IF ExceedsMin(nparts_gp[m0], min_gp) \/ Len(nparts_gp) <= 1
             THEN [curr |-> curr_gp, nparts |-> nparts_gp, lut |-> lut_gp,
                   exc |-> "None", merges |-> merges]
             ELSE IF at = 0
             THEN [curr |-> curr_gp, nparts |-> nparts_gp, lut |-> lut,
                   exc |-> "IndexError", merges |-> merges]
             ELSE CHOOSE r \in
                    {gather_loop(c2, n2, l2, min_gp, merges + 1) :
                        c2 \in {RemoveAt(curr_gp, m0)},
                        n2 \in {RemoveAt([j \in 1..Len(nparts_gp) |->
                                              IF j = m1 THEN nparts_gp[m1] + nparts_gp[m0]
                                              ELSE nparts_gp[j]], m0)},
                        l2 \in {[i \in 1..Len(lut) |->
                                    IF i = at THEN curr_gp[m1] ELSE lut[i]]}} : TRUE

\* the result of particle_group: the object, the exception, the merges made
GroupRes(st, exc, merges) == [st |-> st, exc |-> exc, merges |-> merges]

\* Star.particle_group(min_gp); curr_gp is list(set(column)), the distinct
\* group ids in the order the set yields them.  Without the column
\* get_column_data returns None and set(None) raises TypeError, which the
\* except ValueError clauses do not catch.
particle_group(st, min_gp, curr_gp) ==
    IF ~is_column(st, "_rlnGroupNumber") THEN GroupRes(st, "TypeError", 0)
    ELSE LET col  == st.data["_rlnGroupNumber"]
             nparts_gp == [j \in 1..Len(curr_gp) |->
                              Cardinality({row \in 1..get_nrows(st) :
                                              col[row].n = curr_gp[j]})]
         IN  IF Len(col) < get_nrows(st) THEN GroupRes(st, "IndexError", 0)
             \* np.asarray(curr_gp).max() of no group at all
             ELSE IF curr_gp = <<>> THEN GroupRes(st, "ValueError", 0)
             ELSE CHOOSE r \in
                    {IF g.exc /= "None" THEN GroupRes(st, g.exc, g.merges)
                     ELSE IF \E row \in 1..get_nrows(st) :
                                PyIdx(Len(g.lut), col[row].n) = 0
                          THEN GroupRes(st, "IndexError", g.merges)
                          \* set_column_data stores nothing when the lengths differ
                          ELSE IF Len(col) /= get_nrows(st) THEN GroupRes(st, "None", g.merges)
                          ELSE GroupRes(
                                 [st EXCEPT !.data = SetKey(st.data, "_rlnGroupNumber",
                                     [row \in 1..get_nrows(st) |->
                                         IntV(g.lut[PyIdx(Len(g.lut), col[row].n)])])],
                                 "None", g.merges) :
                        g \in {gather_loop(curr_gp, nparts_gp,
                                           [i \in 1..(SeqMax(curr_gp) + 1) |-> i - 1],
                                           min_gp, 0)}} : TRUE

\* ------------------------------------------------- grouping specification

\* group ids of the rows; the column is of ints and nothing keeps them positive
GroupIds == {0 - 2, 0 - 1, 0, 1, 2}

\* min_gp: None (the default) or a count
MinGps == {[none |-> TRUE, n |-> 0]} \cup {[none |-> FALSE, n |-> k] : k \in 0..MaxParts}

\* the distinct values of a column of ints
ColumnIds(st, key) == {st.data[key][i].n : i \in 1..Len(st.data[key])}

\* the orders in which a set can yield the elements of S
Orders(S) == {o \in [1..Cardinality(S) -> S] : \A i, j \in 1..Cardinality(S) :
                                                    i /= j => o[i] /= o[j]}

\* tables with a group column of up to MaxParts rows, and tables without one
InitGroup ==
    /\ \E n \in 0..MaxParts :
          \/ \E gs \in [1..n -> GroupIds] :
                star = Build(<<"_rlnGroupNumber">>, [i \in 1..n |-> <<IntV(gs[i])>>])
          \/ star = Build(<<"_rlnImageName">>, [i \in 1..n |-> <<StrV(<<"a">>)>>])
          \/ star = Build(<<>>, [i \in 1..n |-> <<>>])
    /\ other = EmptyStar
    /\ file = <<>>
    /\ out = <<>>
    /\ loads = 0
    /\ last = NoCall

\* out keeps min_gp and the number of merges of the call
ParticleGroup ==
    \E min_gp \in MinGps :
        \E curr_gp \in (IF is_column(star, "_rlnGroupNumber")
                        THEN Orders(ColumnIds(star, "_rlnGroupNumber")) ELSE {<<>>}) :
            \E r \in {particle_group(star, min_gp, curr_gp)} :
                /\ star' = r.st
                /\ out' = [min_gp |-> min_gp, merges |-> r.merges]
                /\ last' = Call("particle_group", r.exc, star, {})
                /\ UNCHANGED <<other, file, loads>>

NextGroup == ParticleGroup

SpecGroup == InitGroup /\ [][NextGroup]_vars

\* ----------------------------------------------------------- compute_malign

\* rows of the tables compute_malign is exercised on
MaxMalign == 2

\* a cell read: the value and the exception the read raises
Elem(v, exc) == [v |-> v, exc |-> exc]

\* Star.get_element(key, row): self.__data[key][row]
get_element(st, key, row) ==
    IF key \notin DOMAIN st.data THEN Elem(CastErr, "KeyError")
    ELSE IF PyIdx(Len(st.data[key]), row) = 0 THEN Elem(CastErr, "IndexError")
    ELSE Elem(st.data[key][PyIdx(Len(st.data[key]), row)], "None")

\* a lookup: the 0-based row found and the exception the lookup raises
Found(row, exc) == [row |-> row, exc |-> exc]

\* a lookup that answers row 0 where list.index raises ValueError
find_element_miss0(st, key, val) ==
    IF key \notin DOMAIN st.data THEN Found(0, "KeyError")
    ELSE IF \A i \in 1..Len(st.data[key]) : st.data[key][i] /= val THEN Found(0, "None")
    ELSE Found((CHOOSE i \in 1..Len(st.data[key]) :
                    /\ st.data[key][i] = val
                    /\ \A j \in 1..(i - 1) : st.data[key][j] /= val) - 1, "None")

\* a lookup that answers the last row holding val
find_element_last(st, key, val) ==
    IF key \notin DOMAIN st.data THEN Found(0, "KeyError")
    ELSE IF \A i \in 1..Len(st.data[key]) : st.data[key][i] /= val THEN Found(0, "ValueError")
    ELSE Found((CHOOSE i \in 1..Len(st.data[key]) :
                    /\ st.data[key][i] = val
                    /\ \A j \in (i + 1)..Len(st.data[key]) : st.data[key][j] /= val) - 1, "None")

\* Star.find_element(key, val): self.__data[key].index(val), the first row
\* holding val, ValueError when no row holds it
find_element(st, key, val) ==
    IF key \notin DOMAIN st.data THEN Found(0, "KeyError")
    ELSE IF \A i \in 1..Len(st.data[key]) : st.data[key][i] /= val THEN Found(0, "ValueError")
    ELSE Found((CHOOSE i \in 1..Len(st.data[key]) :
                    /\ st.data[key][i] = val
                    /\ \A j \in 1..(i - 1) : st.data[key][j] /= val) - 1, "None")

\* the exception of the first read of es that raises, "None" when none does
FirstExc(es) ==
    IF \A a \in 1..Len(es) : es[a].exc = "None" THEN "None"
    ELSE es[CHOOSE a \in 1..Len(es) :
                es[a].exc /= "None" /\ \A b \in 1..(a - 1) : es[b].exc = "None"].exc

\* rot_mat_relion(rot, tilt, psi, deg=True) of pyseg.globals: the rotation of
\* the three Euler angles, kept as the angles (tenths of a degree)
rot_mat_relion(rot, tilt, psi) == [rot |-> rot, tilt |-> tilt, psi |-> psi]

\* mat.T * a_ref_vect for the reference vector (0, 0, 1): the direction whose
\* polar angle is the tilt and whose azimuth the rot give
RotateRef(mat, ref_vect) == [polar |-> mat.tilt, azim |-> mat.rot]

Abs(n) == IF n < 0 THEN 0 - n ELSE n

\* angle_2vec_3D(v1, v2) of pyseg.globals, in quarter turns (pi/2 radians),
\* for two directions of one azimuth whose polar angles are whole quarter turns
angle_2vec_3D(v1, v2) == Abs(v1.polar - v2.polar) \div 900

\* math.degrees of an angle in quarter turns, in tenths of a degree
degrees(q) == q * 900

\* math.sqrt((hold * hold).sum()), in tenths, rounded down: the Euclidean
\* length lies between the largest component and the sum of the components
Norm(hold) ==
    LET a == [c \in 1..3 |-> Abs(hold[c])]
        q == a[1] * a[1] + a[2] * a[2] + a[3] * a[3]
    IN  CHOOSE r \in SeqMax(a)..(a[1] + a[2] + a[3]) : r * r <= q /\ (r + 1) * (r + 1) > q

AngleKeys == <<"_rlnAngleRot", "_rlnAnglePsi", "_rlnAngleTilt">>

CoordKeys == <<"_rlnCoordinateX", "_rlnCoordinateY", "_rlnCoordinateZ">>

OriginKeys == <<"_rlnOriginX", "_rlnOriginY", "_rlnOriginZ">>

\* the cells of the columns keys at one row, read from left to right
ReadCells(st, keys, row) == [a \in 1..Len(keys) |-> get_element(st, keys[a], row)]

\* (c_x - o_x, c_y - o_y, c_z - o_z) of a row, in tenths: the origin is
\* (0, 0, 0) when reading it raises KeyError
Coord(st, row) ==
    LET c == ReadCells(st, CoordKeys, row)
        o == ReadCells(st, OriginKeys, row)
    IN  IF FirstExc(c) /= "None" THEN [exc |-> FirstExc(c), v |-> <<0, 0, 0>>]
        ELSE IF FirstExc(o) = "KeyError"
        THEN [exc |-> "None", v |-> <<c[1].v.n, c[2].v.n, c[3].v.n>>]
        ELSE IF FirstExc(o) /= "None" THEN [exc |-> FirstExc(o), v |-> <<0, 0, 0>>]
        ELSE [exc |-> "None",
              v |-> <<c[1].v.n - o[1].v.n, c[2].v.n - o[2].v.n, c[3].v.n - o[3].v.n>>]

\* the value angs and shifts are filled with, -1.0 in tenths
Sentinel == 0 - 10

\* one pass of the particles loop
RowOut(exc, ang, shift) == [exc |-> exc, ang |-> ang, shift |-> shift]

\* the pass of the particles loop for 0-based row i: the exception it raises
\* and the entries i of angs and shifts after it
MalignRow(st, ref_star, ref_vect, i) ==
    LET p_name == get_element(st, "_rlnImageName", i)
        j   == find_element(ref_star, "_rlnImageName", p_name.v)
        a   == ReadCells(st, AngleKeys, i)
        r   == ReadCells(ref_star, AngleKeys, j.row)
        ang == degrees(angle_2vec_3D(
                   RotateRef(rot_mat_relion(a[1].v.n, a[3].v.n, a[2].v.n), ref_vect),
                   RotateRef(rot_mat_relion(r[1].v.n, r[3].v.n, r[2].v.n), ref_vect)))
        coord   == Coord(st, i)
        coord_r == Coord(ref_star, j.row)
    IN  IF p_name.exc /= "None" THEN RowOut(p_name.exc, Sentinel, Sentinel)
        \* except ValueError: continue
        ELSE IF j.exc = "ValueError" THEN RowOut("None", Sentinel, Sentinel)
        ELSE IF j.exc /= "None" THEN RowOut(j.exc, Sentinel, Sentinel)
        ELSE IF FirstExc(a \o r) /= "None" THEN RowOut(FirstExc(a \o r), Sentinel, Sentinel)
        ELSE IF coord.exc /= "None" THEN RowOut(coord.exc, ang, Sentinel)
        ELSE IF coord_r.exc /= "None" THEN RowOut(coord_r.exc, ang, Sentinel)
        ELSE RowOut("None", ang,
                    Norm([c \in 1..3 |-> coord.v[c] - coord_r.v[c]]))

\* the result of compute_malign: both objects after the call, the exception,
\* and the two arrays returned
MalignRes(st, ref_star, exc, angs, shifts) ==
    [st |-> st, ref |-> ref_star, exc |-> exc, angs |-> angs, shifts |-> shifts]

\* Star.compute_malign(ref_star, ref_vect): the first pass that raises ends
\* the call
compute_malign(st, ref_star, ref_vect) ==
    LET n_parts == get_nrows(st)
    IN  CHOOSE r \in
            {IF \E i \in 1..n_parts : rows[i].exc /= "None"
             THEN MalignRes(st, ref_star, FirstExc(rows), <<>>, <<>>)
             ELSE MalignRes(st, ref_star, "None",
                            [i \in 1..n_parts |-> rows[i].ang],
                            [i \in 1..n_parts |-> rows[i].shift]) :
                rows \in {[i \in 1..n_parts |->
                              MalignRow(st, ref_star, ref_vect, i - 1)] \o <<>>}} : TRUE

\* --------------------------------------------- alignment specification

\* the columns compute_malign reads in both tables
MalignCols == <<"_rlnImageName">> \o AngleKeys \o CoordKeys

\* a particle: its image name, its tilt and its x coordinate; rot, psi, y and z
\* are 0 and the origin, where the table has one, is (1, 0, 0).  Image "a"
\* comes in three poses, image "b" in one
Particles ==
    {[name |-> <<"a">>, tilt |-> q[1], x |-> q[2]] : q \in {<<0, 0>>, <<900, 0>>, <<0, 10>>}}
        \cup {[name |-> <<"b">>, tilt |-> 0, x |-> 0]}

\* the value passed to add_row for column key of particle p
ParticleCell(p, key) ==
    CASE key = "_rlnImageName" -> StrV(p.name)
      [] key = "_rlnAngleTilt" -> FloatV(p.tilt, 0)
      [] key = "_rlnCoordinateX" -> FloatV(p.x, 0)
      [] key = "_rlnOriginX" -> FloatV(10, 0)
      [] OTHER -> FloatV(0, 0)

\* the column lists of the tables: all the columns read, with the origin
\* columns too, without the tilt column, and no column at all
MalignShapes ==
    {MalignCols, MalignCols \o OriginKeys,
     <<"_rlnImageName", "_rlnAngleRot", "_rlnAnglePsi">> \o CoordKeys, <<>>}

\* the tables of up to MaxMalign particles
MalignTables ==
    {Build(cs, [i \in 1..Len(ps) |-> [c \in 1..Len(cs) |-> ParticleCell(ps[i], cs[c])]]) :
        cs \in MalignShapes,
        ps \in UNION {[1..n -> Particles] : n \in 0..MaxMalign}}

InitMalign ==
    /\ star \in MalignTables
    /\ other \in MalignTables
    /\ file = <<>>
    /\ out = <<>>
    /\ loads = 0
    /\ last = NoCall

\* star.compute_malign(other, (0, 0, 1)); out keeps the arrays returned and
\* the reference table as it was before the call
ComputeMalign ==
    \E r \in {compute_malign(star, other, <<0, 0, 1>>)} :
        /\ star' = r.st
        /\ other' = r.ref
        /\ out' = [angs |-> r.angs, shifts |-> r.shifts, ref |-> other]
        /\ last' = Call("compute_malign", r.exc, star, {})
        /\ UNCHANGED <<file, loads>>

NextMalign == ComputeMalign

SpecMalign == InitMalign /\ [][NextMalign]_vars

\* ------------------------------------------------- split_class and get_subset

\* "for key in keys: star.add_column(key)" from column c on: each column of
\* the new table is added with the default value and with no_parse False
RECURSIVE copy_columns(_, _, _)
copy_columns(hold, keys, c) ==
    IF c > Len(keys) THEN Res(hold, "None")
    ELSE CHOOSE q \in {IF r.exc /= "None" THEN r ELSE copy_columns(r.st, keys, c + 1) :
                          r \in {add_column(hold, keys[c], Scalar(IntV(0 - 1)), FALSE)}} : TRUE

\* one row copied: kwargs[key] = self.get_element(key, idx) for each key, then
\* add_row(**kwargs) on the new table.  Every key is a column of the new table,
\* so the order in which the kwargs dict yields the pairs decides nothing but
\* which cast raises first
copy_row(hold, st, keys, idx) ==
    LET cells == [c \in 1..Len(keys) |-> get_element(st, keys[c], idx)]
    IN  IF FirstExc(cells) /= "None" THEN Res(hold, FirstExc(cells))
        ELSE add_row(hold, [c \in 1..Len(keys) |-> <<keys[c], cells[c].v>>] \o <<>>)

\* the rows loop of split_class and of get_subset from position k of rows on
RECURSIVE copy_rows(_, _, _, _, _)
copy_rows(hold, st, keys, rows, k) ==
    IF k > Len(rows) THEN Res(hold, "None")
    ELSE CHOOSE q \in {IF r.exc /= "None" THEN r ELSE copy_rows(r.st, st, keys, rows, k + 1) :
                          r \in {copy_row(hold, st, keys, rows[k])}} : TRUE

\* np.where(classes == class_id)[0]: the 0-based rows of a class, ascending
RowsOf(classes, class_id) ==
    LET hits == {i \in 1..Len(classes) : classes[i].n = class_id}
    IN  [k \in 1..Cardinality(hits) |-> Kth(hits, k) - 1]

\* the result of a call that returns tables: the list returned, the exception
Tables(stars, exc) == [stars |-> stars, exc |-> exc]

\* the body of split_class's loop: the table of one class
split_one(st, class_id) ==
    CHOOSE q \in {IF h.exc /= "None" THEN h
                  ELSE copy_rows(h.st, st, st.cols,
                                 RowsOf(st.data["_rlnClassNumber"], class_id), 1) :
                     h \in {copy_columns(EmptyStar, st.cols, 1)}} : TRUE

\* Star.split_class(); class_ids is set(classes), the distinct class ids in
\* the order the set yields them
split_class(st, class_ids) ==
    IF ~is_column(st, "_rlnClassNumber") THEN Tables(<<>>, "PySegInputError")
    ELSE CHOOSE q \in
            {IF FirstExc(made) /= "None" THEN Tables(<<>>, FirstExc(made))
             ELSE Tables([j \in 1..Len(made) |-> made[j].st] \o <<>>, "None") :
                made \in {[j \in 1..Len(class_ids) |-> split_one(st, class_ids[j])] \o <<>>}} :
            TRUE

\* Star.get_subset(rows)
get_subset(st, rows) ==
    CHOOSE q \in {IF h.exc /= "None" THEN Tables(<<>>, h.exc)
                  ELSE CHOOSE q2 \in {IF r.exc /= "None" THEN Tables(<<>>, r.exc)
                                      ELSE Tables(<<r.st>>, "None") :
                                         r \in {copy_rows(h.st, st, h.st.cols, rows, 1)}} : TRUE :
                     h \in {copy_columns(EmptyStar, st.cols, 1)}} : TRUE

\* ------------------------------------------------ derivation specification

\* largest number of rows of a table that split_class and get_subset are
\* called on
MaxDerive == 3

\* the column lists of those tables: with and without a class column, with
\* and without a column admitted with no_parse
DeriveShapes ==
    { <<"_rlnClassNumber", "_rlnImageName">>, <<"_rlnImageName", "_rlnClassNumber", "_psUser">>,
      <<"_rlnImageName">>, <<"_rlnImageName", "_psUser">>, <<>> }

\* a row: its class id and its image name
DeriveRows == {[class |-> c, name |-> n] : c \in {1, 2}, n \in {<<"a">>, <<"b">>}}

\* the value passed to add_row for column key of row p
DeriveCell(p, key) ==
    CASE key = "_rlnClassNumber" -> IntV(p.class)
      [] key = "_rlnImageName" -> StrV(p.name)
      [] OTHER -> FloatV(15, 0)

DeriveTables ==
    {Build(cs, [i \in 1..Len(ps) |-> [c \in 1..Len(cs) |-> DeriveCell(ps[i], cs[c])]]) :
        cs \in DeriveShapes,
        ps \in UNION {[1..n -> DeriveRows] : n \in 0..MaxDerive}}

\* rows of get_subset: none, one, in another order, repeated, counted from
\* the end, past the end
SubsetRows == {<<>>, <<0>>, <<1, 0>>, <<0, 0>>, <<2, 0, 1>>, <<0 - 1>>, <<MaxDerive>>}

InitDerive ==
    /\ star \in DeriveTables
    /\ other = EmptyStar
    /\ file = <<>>
    /\ out = <<>>
    /\ loads = 0
    /\ last = NoCall

\* star.split_class(); out keeps the tables returned
SplitClass ==
    \E class_ids \in (IF is_column(star, "_rlnClassNumber")
                      THEN Orders(ColumnIds(star, "_rlnClassNumber")) ELSE {<<>>}) :
        \E r \in {split_class(star, class_ids)} :
            /\ out' = [rows |-> <<>>, stars |-> r.stars]
            /\ last' = Call("split_class", r.exc, star, {})
            /\ UNCHANGED <<star, other, file, loads>>

\* star.get_subset(rows); out keeps the rows asked for and the table returned
GetSubset ==
    \E rows \in SubsetRows :
        \E r \in {get_subset(star, rows)} :
            /\ out' = [rows |-> rows, stars |-> r.stars]
            /\ last' = Call("get_subset", r.exc, star, {})
            /\ UNCHANGED <<star, other, file, loads>>

NextDerive == SplitClass \/ GetSubset

SpecDerive == InitDerive /\ [][NextDerive]_vars

\* ----------------------------------------------------------- scale_coords

\* Star.set_column_data(key, dat): stores nothing when the column does not
\* exist or dat has not one entry per row
set_column_data(st, key, dat) ==
    IF is_column(st, key) /\ Len(dat) = get_nrows(st)
    THEN [st EXCEPT !.data = SetKey(st.data, key, dat)]
    ELSE st

\* one pair of lines of scale_coords: for a missing column get_column_data
\* returns None, np.asarray(None, dtype=float) is nan, and set_column_data
\* stores nothing; else the column's values as reals times fsf
scale_column(st, key, fsf) ==
    IF ~is_column(st, key) THEN st
    ELSE set_column_data(st, key,
             [i \in 1..Len(st.data[key]) |->
                 FloatV(Cast("float", st.data[key][i]).n * fsf,
                        Cast("float", st.data[key][i]).x)] \o <<>>)

RECURSIVE scale_columns(_, _, _, _)
scale_columns(st, keys, fsf, c) ==
    IF c > Len(keys) THEN st
    ELSE CHOOSE q \in {scale_columns(st2, keys, fsf, c + 1) :
                          st2 \in {scale_column(st, keys[c], fsf)}} : TRUE

\* Star.scale_coords(sf), sf an integer
scale_coords(st, sf) == Res(scale_columns(st, CoordKeys \o OriginKeys, sf, 1), "None")

\* --------------------------------------------------- scaling specification

\* largest number of rows of a table that scale_coords and store with del_ang
\* are called on
MaxScale == 2

\* largest magnitude, in tenths, of a value that scale_coords produces
MaxCoord == 500

\* the column lists of those tables: the six scaled columns with others, the
\* six alone, without the origin columns, the angle columns alone, no column
ScaleShapes ==
    {MalignCols \o OriginKeys, CoordKeys \o OriginKeys, MalignCols, AngleKeys, <<>>}

\* the value passed to add_row for column key of a row of kind p: the name "a"
\* or "b", and a real that tells the row and the column
ScaleCell(p, key) ==
    IF key = "_rlnImageName" THEN StrV(IF p = 1 THEN <<"a">> ELSE <<"b">>)
    ELSE FloatV(100 * p + IndexOf(RelionCols_cols, key), 0)

ScaleTables ==
    {Build(cs, [i \in 1..Len(ps) |-> [c \in 1..Len(cs) |-> ScaleCell(ps[i], cs[c])]]) :
        cs \in ScaleShapes,
        ps \in UNION {[1..n -> {1, 2}] : n \in 0..MaxScale}}

\* sf of scale_coords
Factors == {0, 2, 0 - 1}

\* del_ang of store
DelAngs == {<<0, 0, 0>>, <<1, 0, 0>>, <<0, 1, 1>>}

InitScale ==
    /\ star \in ScaleTables
    /\ other = EmptyStar
    /\ file = <<>>
    /\ out = <<>>
    /\ loads = 0
    /\ last = NoCall

\* star.scale_coords(sf); out keeps sf
ScaleCoords ==
    \E sf \in Factors :
        /\ \A key \in DOMAIN star.data : \A i \in 1..Len(star.data[key]) :
              Abs(star.data[key][i].n * sf) <= MaxCoord
        /\ \E r \in {scale_coords(star, sf)} :
              /\ star' = r.st
              /\ out' = [sf |-> sf, del_ang |-> <<0, 0, 0>>]
              /\ last' = Call("scale_coords", r.exc, star, {})
              /\ UNCHANGED <<other, file, loads>>

\* star.store(fname, del_ang=del_ang) with sv = None; out keeps del_ang.  The
\* file is opened for writing only when the angles deletion has passed
StoreDelAng ==
    \E del_ang \in DelAngs :
        \E r \in {store(star, del_ang)} :
            /\ file' = (IF r.exc = "UnboundLocalError" THEN file
                        ELSE IF r.exc = "None" THEN r.text ELSE <<>>)
            /\ out' = [sf |-> 1, del_ang |-> del_ang]
            /\ last' = Call("store", r.exc, star, {})
            /\ UNCHANGED <<star, other, loads>>

NextScale == ScaleCoords \/ StoreDelAng

SpecScale == InitScale /\ [][NextScale]_vars

\* ------------------------------------------------------------- set_element

\* Star.set_element(key, row, val): the cast is the registry's type for the
\* name, None for a name that is not registered, and calling None raises
\* TypeError; the right-hand side is evaluated before the cell is looked up
set_element(st, key, row, val) ==
    IF get_dtype(key) = "None" THEN Res(st, "TypeError")
    ELSE IF Cast(get_dtype(key), val) = CastErr THEN Res(st, "ValueError")
    ELSE IF key \notin DOMAIN st.data THEN Res(st, "KeyError")
    ELSE IF PyIdx(Len(st.data[key]), row) = 0 THEN Res(st, "IndexError")
    ELSE Res([st EXCEPT !.data =
                 SetKey(st.data, key,
                        [j \in 1..Len(st.data[key]) |->
                            IF j = PyIdx(Len(st.data[key]), row)
                            THEN Cast(get_dtype(key), val) ELSE st.data[key][j]] \o <<>>)],
             "None")

\* --------------------------------------------------- editing specification

\* largest number of rows of a table that set_element, del_rows and add_column
\* with a value are called on
MaxEdit == 3

\* the column lists of those tables: a text column alone, with a column
\* admitted with no_parse, with an integer column, no column
EditShapes ==
    { <<"_rlnImageName">>, <<"_rlnImageName", "_psUser">>,
      <<"_rlnGroupNumber", "_rlnImageName">>, <<>> }

\* the value passed to add_row for column key of a row of kind p
EditCell(p, key) ==
    CASE key = "_rlnImageName" -> StrV(IF p = 1 THEN <<"a">> ELSE <<"b">>)
      [] key = "_rlnGroupNumber" -> IntV(p)
      [] OTHER -> FloatV(15, 0)

EditTables ==
    {Build(cs, [i \in 1..Len(ps) |-> [c \in 1..Len(cs) |-> EditCell(ps[i], cs[c])]]) :
        cs \in EditShapes,
        ps \in UNION {[1..n -> {1, 2}] : n \in 0..MaxEdit}}

\* val of add_column for a new text column: an int, texts of one and of two
\* characters, a list
EditArgs == {Scalar(IntV(3)), StrArg(<<"c">>), StrArg(<<"c", "d">>),
             ListArg(<<StrV(<<"c">>), StrV(<<"d">>)>>)}

\* key of set_element: a text column, an integer column, a name that is not
\* registered, a registered name that is no column of the tables
EditKeys == {"_rlnImageName", "_rlnGroupNumber", "_psUser", "_rlnCoordinateX"}

\* ids of del_rows: those of the structural model, and every position
EditIds == RowIds \cup {[i \in 1..MaxEdit |-> i - 1]}

InitEdit ==
    /\ star \in EditTables
    /\ other = EmptyStar
    /\ file = <<>>
    /\ out = <<>>
    /\ loads = 0
    /\ last = NoCall

\* star.add_column('_rlnMicrographName', val); out keeps the arguments
AddColumnValue ==
    \E val \in EditArgs :
        \E r \in {add_column(star, "_rlnMicrographName", val, FALSE)} :
            /\ star' = r.st
            /\ out' = [key |-> "_rlnMicrographName", val |-> val]
            /\ last' = Call("add_column", r.exc, star, {"_rlnMicrographName"})
            /\ UNCHANGED <<other, file, loads>>

\* star.set_element(key, row, 7); out keeps the arguments
SetElement ==
    \E key \in EditKeys, row \in {0, 1, MaxEdit} :
        \E r \in {set_element(star, key, row, IntV(7))} :
            /\ star' = r.st
            /\ out' = [key |-> key, row |-> row, val |-> IntV(7)]
            /\ last' = Call("set_element", r.exc, star, {key})
            /\ UNCHANGED <<other, file, loads>>

\* star.del_rows(ids), ids a list; out keeps ids
DelRowsAt ==
    \E ids \in EditIds :
        \E r \in {del_rows(star, ids, TRUE, {})} :
            /\ star' = r.st
            /\ out' = [ids |-> ids]
            /\ last' = Call("del_rows", r.exc, star, {})
            /\ UNCHANGED <<other, file, loads>>

NextEdit == AddColumnValue \/ SetElement \/ DelRowsAt

SpecEdit == InitEdit /\ [][NextEdit]_vars

\* --------------------------------------------------- parsing specification

\* largest number of data rows of a file that load reads
MaxParse == 2

\* the column a file declares: an integer, a real or a text column
ParseCols == {"_rlnGroupNumber", "_rlnCoordinateX", "_rlnImageName"}

\* the tokens of a data row: an integer, a negative one, reals with a decimal
\* point, an exponent form without one, a word
Tokens == { <<"1">>, <<"-", "2">>, <<"1", ".", "5">>, <<"2", ".">>, <<"1", "e", "3">>,
            <<"a">> }

\* the text of a STAR file as to_string lays it out, with one column and one
\* token per data row
FileText(col, toks) ==
    Flatten(EmptyStar.header) \o <<col, " ", "#", "1", "\n">>
        \o Flatten([i \in 1..Len(toks) |-> toks[i] \o <<"\n">>]) \o <<"\n">>

\* the file holds a text that declares col and carries the tokens toks; out
\* keeps both
InitParse ==
    /\ \E col \in ParseCols : \E toks \in UNION {[1..n -> Tokens] : n \in 0..MaxParse} :
          /\ file = FileText(col, toks)
          /\ out = [col |-> col, toks |-> toks]
    /\ star = EmptyStar
    /\ other = EmptyStar
    /\ loads = 0
    /\ last = NoCall

NextParse == LoadFresh \/ Load

SpecParse == InitParse /\ [][NextParse]_vars

\* ------------------------------------------------------------------ claims

\* the table's structure is consistent: one dtype per column, no duplicate
\* name, every column's list as long as the row count
Consistent(st) ==
    /\ Len(st.cols) = Len(st.dtypes)
    /\ \A i, j \in 1..Len(st.cols) : i /= j => st.cols[i] /= st.cols[j]
    /\ DOMAIN st.data = ColSet(st)
    /\ \A key \in DOMAIN st.data : Len(st.data[key]) = get_nrows(st)

\* C1: in every state reached by add_row, del_rows, add_column and del_column
\* calls, failing ones included, every column's data list is as long as the
\* row count, and the column names are distinct with one dtype each
C1_Invariant == Consistent(star)

\* C2: a failed add_row or add_column leaves the table as it was before the call
C2_FailedCallUnchanged ==
    (last.op \in {"add_row", "add_column"} /\ last.exc /= "None") => star = last.pre

\* C3: add_row with a key set that is not exactly the set of the columns
\* raises and leaves the row count unchanged
C3_BadKeysRaise ==
    (last.op = "add_row" /\ last.keys /= ColSet(last.pre))
        => (last.exc /= "None" /\ get_nrows(star) = get_nrows(last.pre))

\* C3 witness: add_row with as many keys as columns, one of them no column,
\* was called on a table with rows
C3_Witness ==
    /\ last.op = "add_row"
    /\ last.keys /= ColSet(last.pre)
    /\ Cardinality(last.keys) = Len(last.pre.cols)
    /\ last.pre.rows > 0
    /\ last.exc = "PySegInputError"


\* the columns, dtypes, row count and cells of two tables agree
SameTable(a, b) ==
    /\ a.cols = b.cols
    /\ a.dtypes = b.dtypes
    /\ a.rows = b.rows
    /\ a.data = b.data

\* C4: a successful load on a Star that already holds a table leaves exactly
\* the table the file describes: what a fresh Star reads from the same file,
\* with one dtype per loaded column and data for the loaded columns only
C4_LoadReplaces ==
    (last.op = "load" /\ last.exc = "None")
        => /\ SameTable(star, load(EmptyStar, file, "f").st)
           /\ Len(star.dtypes) = Len(star.cols)
           /\ DOMAIN star.data = ColSet(star)

\* a table as successful add_column, add_row, del_rows and del_column calls
\* build it: consistent, each column typed by the registry (real when the name
\* is not registered), each cell of its column's type
Built(st) ==
    /\ Consistent(st)
    /\ \A c \in 1..Len(st.cols) :
          /\ st.dtypes[c] = (IF is_valid(st.cols[c]) THEN get_dtype(st.cols[c]) ELSE "float")
          /\ \A i \in 1..Len(st.data[st.cols[c]]) : st.data[st.cols[c]][i].k = st.dtypes[c]

\* C5 (as claimed): the text of any table built by successful calls, read into
\* a fresh Star, gives the same columns, dtypes, row count and cells
C5_RoundTripAny ==
    (last.op = "load_fresh" /\ Built(out[1]))
        => (last.exc = "None" /\ SameTable(other, out[1]))

\* a table whose text form can be read back: only registered column names; a
\* column or no row; text cells not empty and free of white space; no '_' at
\* the start of the first row; real cells that str() prints in full
Readable(st) ==
    /\ \A c \in 1..Len(st.cols) : is_valid(st.cols[c])
    /\ get_ncols(st) > 0 \/ get_nrows(st) = 0
    /\ \A c \in 1..Len(st.cols) : \A i \in 1..Len(st.data[st.cols[c]]) :
          LET v == st.data[st.cols[c]][i]
          IN  /\ v.k = "str" => (v.s /= <<>> /\ \A j \in 1..Len(v.s) : ~IsSpace(v.s[j]))
              /\ v.k = "float" => v.x = 0
              /\ (c = 1 /\ i = 1 /\ v.k = "str" /\ v.s /= <<>>) => v.s[1] /= "_"

\* C5 (amended): the round trip holds for the tables that are Readable
C5_RoundTripReadable ==
    (last.op = "load_fresh" /\ Built(out[1]) /\ Readable(out[1]))
        => (last.exc = "None" /\ SameTable(other, out[1]))

\* C5 witness: a table with a text and a real column and two rows, the second
\* row's text starting with '_', went through the round trip
C5_Witness ==
    /\ last.op = "load_fresh"
    /\ Built(out[1])
    /\ Readable(out[1])
    /\ out[1].cols = <<"_rlnImageName", "_rlnCoordinateX">>
    /\ out[1].rows = 2
    /\ out[1].data["_rlnImageName"][2] = StrV(<<"_", "a">>)
    /\ other.rows = 2


\* number of rows that carry group id g
Occupancy(st, g) ==
    Cardinality({i \in 1..Len(st.data["_rlnGroupNumber"]) :
                    st.data["_rlnGroupNumber"][i].n = g})

\* particle_group was called on a table with a group column and returned
GroupReturned ==
    /\ last.op = "particle_group"
    /\ last.exc = "None"
    /\ is_column(last.pre, "_rlnGroupNumber")

\* C6: after particle_group(min_gp = g) returns on a table with a group
\* column, one distinct group id remains or every remaining group id is
\* carried by at least g rows
C6_MinOccupancy ==
    (GroupReturned /\ ~out.min_gp.none)
        => \/ Cardinality(ColumnIds(star, "_rlnGroupNumber")) = 1
           \/ \A g \in ColumnIds(star, "_rlnGroupNumber") :
                 Occupancy(star, g) >= out.min_gp.n

\* C7: particle_group keeps the row count and the column's length, gives
\* every row a group id that was present before the call, and keeps rows of
\* one group together
C7_Conserves ==
    GroupReturned
        => /\ get_nrows(star) = get_nrows(last.pre)
           /\ Len(star.data["_rlnGroupNumber"]) = Len(last.pre.data["_rlnGroupNumber"])
           /\ ColumnIds(star, "_rlnGroupNumber") \subseteq ColumnIds(last.pre, "_rlnGroupNumber")
           /\ \A i, j \in 1..Len(star.data["_rlnGroupNumber"]) :
                 last.pre.data["_rlnGroupNumber"][i] = last.pre.data["_rlnGroupNumber"][j]
                    => star.data["_rlnGroupNumber"][i] = star.data["_rlnGroupNumber"][j]

\* C8: on a table without the group column particle_group does not fail: it
\* returns and has created the column with one value per row
C8_Fallback ==
    (last.op = "particle_group" /\ ~is_column(last.pre, "_rlnGroupNumber"))
        => /\ last.exc = "None"
           /\ is_column(star, "_rlnGroupNumber")
           /\ Len(star.data["_rlnGroupNumber"]) = get_nrows(star)


\* a table compute_malign can score: built by successful calls, with the
\* name, angle and coordinate columns
Scorable(st) == Built(st) /\ \A c \in 1..Len(MalignCols) : is_column(st, MalignCols[c])

\* the image names a table holds
NamesOf(st) ==
    IF "_rlnImageName" \in DOMAIN st.data
    THEN {st.data["_rlnImageName"][i] : i \in 1..Len(st.data["_rlnImageName"])}
    ELSE {}

\* C9: compute_malign never raises for a lookup miss and raises nothing on
\* tables that hold the columns it reads; when it returns, both arrays have
\* one entry per row, in row order, -1 and -1 for a row whose image name the
\* reference does not hold and non-negative entries for the other rows; the
\* table and the reference are as they were before the call
C9_MissIsData ==
    last.op = "compute_malign"
        => /\ last.exc /= "ValueError"
           /\ (Scorable(last.pre) /\ Scorable(out.ref)) => last.exc = "None"
           /\ last.exc = "None"
                => /\ Len(out.angs) = get_nrows(last.pre)
                   /\ Len(out.shifts) = get_nrows(last.pre)
                   /\ \A i \in 1..get_nrows(last.pre) :
                         IF last.pre.data["_rlnImageName"][i] \in NamesOf(out.ref)
                         THEN out.angs[i] >= 0 /\ out.shifts[i] >= 0
                         ELSE out.angs[i] = Sentinel /\ out.shifts[i] = Sentinel
           /\ star = last.pre
           /\ other = out.ref

\* C9 witness: a call on two rows returned, the first row's name missing from
\* the reference and the second row's name found in it
C9_Witness ==
    /\ last.op = "compute_malign"
    /\ last.exc = "None"
    /\ get_nrows(last.pre) = 2
    /\ last.pre.data["_rlnImageName"][1] \notin NamesOf(out.ref)
    /\ last.pre.data["_rlnImageName"][2] \in NamesOf(out.ref)
    /\ out.angs[1] = Sentinel
    /\ out.shifts[2] >= 0

\* compute_malign was called with a reference identical to the table, which
\* holds the columns the call reads
IdenticalScored ==
    /\ last.op = "compute_malign"
    /\ out.ref = last.pre
    /\ Scorable(last.pre)

\* C10 (as claimed): with a reference identical to the table every angular
\* and every positional misalignment is 0, whatever the table holds
C10_IdenticalZeroAny ==
    IdenticalScored
        => /\ last.exc = "None"
           /\ \A i \in 1..get_nrows(last.pre) : out.angs[i] = 0 /\ out.shifts[i] = 0

\* row i (1-based) holds, in every column, what the first row with its image
\* name holds
AgreesWithFirst(st, i) ==
    \A j \in 1..i :
        (/\ st.data["_rlnImageName"][j] = st.data["_rlnImageName"][i]
         /\ \A h \in 1..(j - 1) : st.data["_rlnImageName"][h] /= st.data["_rlnImageName"][i])
            => \A key \in DOMAIN st.data : st.data[key][i] = st.data[key][j]

\* C10 (amended): with a reference identical to the table, both
\* misalignments are 0 for every row that holds what the first row with its
\* image name holds, and so for every row when the names are distinct
C10_IdenticalZeroFirst ==
    IdenticalScored
        => /\ last.exc = "None"
           /\ \A i \in 1..get_nrows(last.pre) :
                 AgreesWithFirst(last.pre, i) => (out.angs[i] = 0 /\ out.shifts[i] = 0)

\* C10 witness: a table of two rows with distinct names and distinct tilts
\* was scored against itself
C10_Witness ==
    /\ IdenticalScored
    /\ last.exc = "None"
    /\ get_nrows(last.pre) = 2
    /\ last.pre.data["_rlnImageName"][1] /= last.pre.data["_rlnImageName"][2]
    /\ last.pre.data["_rlnAngleTilt"][1] /= last.pre.data["_rlnAngleTilt"][2]
    /\ out.angs = <<0, 0>>
    /\ out.shifts = <<0, 0>>


\* the table t holds exactly the rows of class g of st, in their order in st,
\* under the columns of st
IsClassPart(t, st, g) ==
    LET rows == RowsOf(st.data["_rlnClassNumber"], g)
    IN  /\ t.cols = st.cols
        /\ get_nrows(t) = Len(rows)
        /\ DOMAIN t.data = ColSet(st)
        /\ \A key \in ColSet(st) :
              /\ Len(t.data[key]) = Len(rows)
              /\ \A k \in 1..Len(rows) : t.data[key][k] = st.data[key][rows[k] + 1]

RECURSIVE SumRows(_)
SumRows(stars) == IF stars = <<>> THEN 0 ELSE get_nrows(Head(stars)) + SumRows(Tail(stars))

\* C11: split_class raises when '_rlnClassNumber' is absent; otherwise it
\* returns one table per distinct class id, each with the columns of the source
\* in their order (a column admitted with no_parse included) and exactly the
\* source rows of its class in source order, the row counts summing to the
\* source's
C11_SplitByClass ==
    last.op = "split_class"
        => IF ~is_column(last.pre, "_rlnClassNumber") THEN last.exc /= "None"
           ELSE /\ last.exc = "None"
                /\ Len(out.stars) = Cardinality(ColumnIds(last.pre, "_rlnClassNumber"))
                /\ \A g \in ColumnIds(last.pre, "_rlnClassNumber") :
                      \E j \in 1..Len(out.stars) : IsClassPart(out.stars[j], last.pre, g)
                /\ SumRows(out.stars) = get_nrows(last.pre)

\* C13: get_subset(indices), for indices that are positions of the source,
\* returns one new table with the columns of the source in their order (a
\* column admitted with no_parse included) whose row k is the source row
\* indices[k], repeated indices giving repeated rows, and leaves the source as
\* it was
C13_SubsetCopies ==
    (last.op = "get_subset"
        /\ \A k \in 1..Len(out.rows) : out.rows[k] \in 0..(get_nrows(last.pre) - 1))
        => /\ last.exc = "None"
           /\ Len(out.stars) = 1
           /\ out.stars[1].cols = last.pre.cols
           /\ get_nrows(out.stars[1]) = Len(out.rows)
           /\ DOMAIN out.stars[1].data = ColSet(last.pre)
           /\ \A key \in ColSet(last.pre) :
                 /\ Len(out.stars[1].data[key]) = Len(out.rows)
                 /\ \A k \in 1..Len(out.rows) :
                       out.stars[1].data[key][k] = last.pre.data[key][out.rows[k] + 1]
           /\ star = last.pre

\* the six columns scale_coords scales
ScaledKeys == {"_rlnCoordinateX", "_rlnCoordinateY", "_rlnCoordinateZ",
               "_rlnOriginX", "_rlnOriginY", "_rlnOriginZ"}

\* C12: scale_coords on a table that lacks one of the six coordinate and
\* origin columns fails instead of completing; when all six exist each of
\* their values is multiplied by the factor and no other column, no column
\* list and no row count changes
C12_AbsenceSurfaces ==
    last.op = "scale_coords"
        => IF \E key \in ScaledKeys : ~is_column(last.pre, key) THEN last.exc /= "None"
           ELSE /\ last.exc = "None"
                /\ star.cols = last.pre.cols
                /\ star.dtypes = last.pre.dtypes
                /\ get_nrows(star) = get_nrows(last.pre)
                /\ DOMAIN star.data = DOMAIN last.pre.data
                /\ \A key \in DOMAIN star.data :
                      IF key \in ScaledKeys
                      THEN /\ Len(star.data[key]) = Len(last.pre.data[key])
                           /\ \A i \in 1..Len(star.data[key]) :
                                 star.data[key][i] = FloatV(last.pre.data[key][i].n * out.sf, 0)
                      ELSE star.data[key] = last.pre.data[key]

\* the angle column that component a of del_ang stands for
DelAngKeys == <<"_rlnAngleRot", "_rlnAngleTilt", "_rlnAnglePsi">>

\* C19: store with a positive component in del_ang writes the file with the
\* corresponding angle column set to 0 in every row, whatever the row count;
\* store with del_ang all zero (and sv None) leaves the table as it was
C19_DelAngZeroes ==
    last.op = "store"
        => /\ \A a \in 1..3 :
                 (out.del_ang[a] > 0 /\ is_column(last.pre, DelAngKeys[a]))
                     => /\ last.exc = "None"
                        /\ \A i \in 1..Len(star.data[DelAngKeys[a]]) :
                              star.data[DelAngKeys[a]][i].n = 0
           /\ out.del_ang = <<0, 0, 0>> => star = last.pre

\* val is a scalar of the caller: a number or a text
IsScalarArg(val) == ~val.isSeq \/ val.v.k = "str"

\* C14: add_column with a scalar value, a text of any length included, succeeds
\* and gives every existing row that value cast to the column's type
C14_ScalarFillsRows ==
    (last.op = "add_column" /\ IsScalarArg(out.val)
        /\ Cast(get_dtype(out.key), out.val.v) /= CastErr)
        => /\ last.exc = "None"
           /\ is_column(star, out.key)
           /\ get_nrows(star) = get_nrows(last.pre)
           /\ star.data[out.key] =
                 [i \in 1..get_nrows(last.pre) |-> Cast(get_dtype(out.key), out.val.v)]

\* the positions of a table of n rows that ids lists
Listed(ids, n) == {i \in 0..(n - 1) : \E j \in 1..Len(ids) : ids[j] = i}

\* C15: del_rows(indices) removes exactly the rows whose position is listed
\* and ignores every index that is no position of the table: the surviving
\* rows keep their order in every column, the column list and the dtypes stay;
\* so del_rows([]) changes nothing and del_rows of all positions leaves no row
C15_RemovesListed ==
    last.op = "del_rows"
        => /\ last.exc = "None"
           /\ star.cols = last.pre.cols
           /\ star.dtypes = last.pre.dtypes
           /\ DOMAIN star.data = DOMAIN last.pre.data
           /\ get_nrows(star) =
                 get_nrows(last.pre) - Cardinality(Listed(out.ids, get_nrows(last.pre)))
           /\ \A key \in DOMAIN star.data :
                 star.data[key] = KeptEntries(last.pre.data[key],
                                              Listed(out.ids, get_nrows(last.pre)),
                                              0, get_nrows(last.pre))

\* C16: set_element on an existing column and a valid row stores the value
\* cast to the type get_column_type reports for the column, a column admitted
\* with no_parse included, and changes no other cell
C16_CastsToColumnType ==
    (last.op = "set_element" /\ is_column(last.pre, out.key)
        /\ out.row \in 0..(get_nrows(last.pre) - 1)
        /\ Cast(get_column_type(last.pre, out.key), out.val) /= CastErr)
        => /\ last.exc = "None"
           /\ star.cols = last.pre.cols
           /\ star.dtypes = last.pre.dtypes
           /\ get_nrows(star) = get_nrows(last.pre)
           /\ DOMAIN star.data = DOMAIN last.pre.data
           /\ \A key \in DOMAIN star.data :
                 /\ Len(star.data[key]) = Len(last.pre.data[key])
                 /\ \A i \in 1..Len(star.data[key]) :
                       star.data[key][i] =
                           (IF key = out.key /\ i = out.row + 1
                            THEN Cast(get_column_type(last.pre, out.key), out.val)
                            ELSE last.pre.data[key][i])

\* C17: a load aborts with an error when the file has a token that fails the
\* cast of its column and either the column is no integer column or the token
\* holds no decimal point; the real-then-truncate fallback is for tokens with
\* a decimal point only
C17_FallbackOnlyForPoint ==
    (last.op = "load_fresh"
        /\ \E i \in 1..Len(out.toks) :
              /\ Cast(get_dtype(out.col), StrV(out.toks[i])) = CastErr
              /\ get_dtype(out.col) /= "int" \/ IndexOf(out.toks[i], ".") = 0)
        => last.exc /= "None"

\* C18: particle_group on a table with a group column, an empty table and a
\* table with one group included, ends its merge loop after at most (number of
\* distinct group ids - 1) merges and returns without an error, for every
\* min_gp
C18_TerminatesCleanly ==
    (last.op = "particle_group" /\ is_column(last.pre, "_rlnGroupNumber"))
        => /\ last.exc = "None"
           /\ \/ out.merges = 0
              \/ out.merges + 1 <= Cardinality(ColumnIds(last.pre, "_rlnGroupNumber"))

====
